---- MODULE Spec2Model ----
(***************************************************************************)
(* State-machine model of the Action reducer of the ISE meta-spreadsheet   *)
(* (src/src/model.rs: Model, Action, Component::create, Component::update). *)
(* The model state is the part of Model the reducer reads or writes: the   *)
(* current session (title, root, meta, grammars), the selection fields,    *)
(* the two dimension tables and the list of pending reader tasks.          *)
(*                                                                         *)
(* A panic of the reducer (unwrap on None/Err, HashMap index on a missing  *)
(* key, panic!) is modelled by the flag `panicked`: the handler keeps the  *)
(* writes it made before the panicking line and no further action runs.    *)
(*                                                                         *)
(* crate::coordinate, crate::grammar, crate::session and crate::util are   *)
(* not part of the sources at hand; their operators below follow the       *)
(* prose specification (sections 3, 4.2 and 4.4).                          *)
(***************************************************************************)
EXTENDS Integers, Sequences, FiniteSets, TLC

VARIABLES
    title,              \* sessions[current_session_index].title
    root,               \* sessions[current_session_index].root
    meta,               \* sessions[current_session_index].meta
    grammars,           \* sessions[current_session_index].grammars
    first_select_cell,  \* Model.first_select_cell
    last_select_cell,   \* Model.last_select_cell
    active_cell,        \* Model.active_cell
    col_widths,         \* Model.col_widths
    row_heights,        \* Model.row_heights
    open_side_menu,     \* Model.open_side_menu
    tasks,              \* Model.tasks (number of reader tasks pushed)
    panicked,           \* the last handled action panicked
    ret,                \* ShouldRender returned by the last handled action
    last,               \* the last handled action and its arguments
    pre,                \* the model fields as they were before that action
    steps               \* number of actions handled so far

vars == <<title, root, meta, grammars, first_select_cell, last_select_cell,
          active_cell, col_widths, row_heights, open_side_menu, tasks,
          panicked, ret, last, pre, steps>>

\* Number of actions handled in one run of the reducer.
MaxSteps == 2

-----------------------------------------------------------------------------
(* Option<T>: None is the empty sequence, Some(x) is x itself (coordinates  *)
(* and lookup targets are non-empty sequences).                             *)
None == << >>

-----------------------------------------------------------------------------
(* crate::coordinate -- Coordinate { row_cols: Vec<(row, col)> }            *)

\* coord!("root") and coord!("meta"): the two length-1 coordinates.
coord_root == << <<1, 1>> >>
coord_meta == << <<1, 2>> >>

child_of(c, rc) == Append(c, rc)

\* parent(C): None iff len(C) == 1.
parent(c) == IF Len(c) = 1 THEN None ELSE SubSeq(c, 1, Len(c) - 1)

row(c) == c[Len(c)][1]
col(c) == c[Len(c)][2]

\* Row(parent path, row) / Col(parent path, col): the dimension-table keys.
full_row(c) == [p |-> SubSeq(c, 1, Len(c) - 1), i |-> row(c)]
full_col(c) == [p |-> SubSeq(c, 1, Len(c) - 1), i |-> col(c)]

\* Increments never leave the positive integers, so these are always Some.
neighbor_right(c) == [c EXCEPT ![Len(c)] = <<row(c), col(c) + 1>>]
neighbor_below(c) == [c EXCEPT ![Len(c)] = <<row(c) + 1, col(c)>>]

\* Literal coordinates used by Model::create and by the action inputs.
rootA1 == child_of(coord_root, <<1, 1>>)
rootA2 == child_of(coord_root, <<2, 1>>)
rootA3 == child_of(coord_root, <<3, 1>>)
rootB1 == child_of(coord_root, <<1, 2>>)
rootB2 == child_of(coord_root, <<2, 2>>)
rootB3 == child_of(coord_root, <<3, 2>>)
metaA1 == child_of(coord_meta, <<1, 1>>)
metaA2 == child_of(coord_meta, <<2, 1>>)
metaA3 == child_of(coord_meta, <<3, 1>>)
metaA3A1 == child_of(metaA3, <<1, 1>>)
metaA3B1 == child_of(metaA3, <<1, 2>>)
metaA3B1A1 == child_of(metaA3B1, <<1, 1>>)
metaA3B1A2 == child_of(metaA3B1, <<2, 1>>)
metaA3B1B1 == child_of(metaA3B1, <<1, 2>>)
metaA3B1B2 == child_of(metaA3B1, <<2, 2>>)

-----------------------------------------------------------------------------
(* crate::grammar -- Grammar { name, style, kind } and Kind                 *)

StyleDefault == "Style::default"

Input(text) == [tag |-> "Input", text |-> text]
LookupKind(query, lookup_type) ==
    [tag |-> "Lookup", text |-> query, lookup_type |-> lookup_type]
Grid(sub_coords) == [tag |-> "Grid", sub_coords |-> sub_coords]
Defn(label, self_coord, rules) ==
    [tag |-> "Defn", text |-> label, self_coord |-> self_coord, rules |-> rules]

Grammar(name, style, kind) == [name |-> name, style |-> style, kind |-> kind]

\* Grammar::default(): the default leaf, an unnamed empty Input.
GrammarDefault == Grammar("", StyleDefault, Input(""))

\* Grammar::text(name, text)
GrammarText(name, text) == Grammar(name, StyleDefault, Input(text))

\* 1..=rows x 1..=cols in row-major order.
RECURSIVE RowMajor(_, _, _)
RowMajor(rows, cols, n) ==
    IF n > rows * cols THEN << >>
    ELSE << << ((n - 1) \div cols) + 1, ((n - 1) % cols) + 1 >> >>
         \o RowMajor(rows, cols, n + 1)

\* Grammar::as_grid(rows, cols)
as_grid(rows, cols) == Grammar("", StyleDefault, Grid(RowMajor(rows, cols, 1)))

-----------------------------------------------------------------------------
(* HashMap helpers: a map is a function whose DOMAIN is its key set.        *)

contains_key(m, k) == k \in DOMAIN m
insert(m, k, v) == [x \in (DOMAIN m) \cup {k} |-> IF x = k THEN v ELSE m[x]]
remove(m, k) == [x \in (DOMAIN m) \ {k} |-> m[x]]

\* All orders in which the elements of a finite set can be iterated
\* (HashMap::keys() yields the keys in an arbitrary order).
RECURSIVE Orders(_)
Orders(S) ==
    IF S = {} THEN {<< >>}
    ELSE UNION {{<<x>> \o s : s \in Orders(S \ {x})} : x \in S}

-----------------------------------------------------------------------------
(* crate::util                                                              *)

\* move_grammar(map, source, dest): no-op when source is absent; otherwise
\* the node is removed from source and inserted at dest.
move_grammar(m, source, dest) ==
    IF contains_key(m, source)
    THEN insert(remove(m, source), dest, m[source])
    ELSE m

-----------------------------------------------------------------------------
(* Model::create                                                            *)

root_grammar ==
    Grammar("root", StyleDefault,
            Grid(<< <<1, 1>>, <<2, 1>>, <<3, 1>>, <<1, 2>>, <<2, 2>>, <<3, 2>> >>))
meta_grammar ==
    Grammar("meta", StyleDefault, Grid(<< <<1, 1>>, <<2, 1>>, <<3, 1>> >>))

InitGrammars ==
    LET defn == Grammar("defn", StyleDefault,
                        Defn("", metaA3, << <<"", metaA3B1>> >>))
        sub  == Grammar("root", StyleDefault,
                        Grid(<< <<1, 1>>, <<2, 1>>, <<1, 2>>, <<2, 2>> >>))
        keys == {coord_root, rootA1, rootA2, rootA3, rootB1, rootB2, rootB3,
                 coord_meta, metaA1, metaA2, metaA3, metaA3A1, metaA3B1,
                 metaA3B1A1, metaA3B1A2, metaA3B1B1, metaA3B1B2}
    IN [k \in keys |->
          CASE k = coord_root -> root_grammar
            [] k = coord_meta -> meta_grammar
            [] k = metaA1 -> GrammarText("js grammar", "This is js")
            [] k = metaA2 -> GrammarText("java grammar", "This is java")
            [] k = metaA3 -> defn
            [] k = metaA3B1 -> sub
            [] k = metaA3B1A1 -> GrammarText("", "custom grammar")
            [] OTHER -> GrammarDefault]

InitColWidths ==
    LET keys == {full_col(rootA1), full_col(rootB1), full_col(metaA1),
                 full_col(metaA3A1), full_col(metaA3B1)}
    IN [k \in keys |->
          IF k \in {full_col(metaA1), full_col(metaA3B1)} THEN 180 ELSE 90]

InitRowHeights ==
    LET keys == {full_row(rootA1), full_row(rootA2), full_row(rootA3),
                 full_row(metaA1)}
    IN [k \in keys |-> IF k = full_row(metaA1) THEN 180 ELSE 30]

\* The fields of the model an action can change, as one record.
Snapshot ==
    [title |-> title, root |-> root, meta |-> meta, grammars |-> grammars,
     first_select_cell |-> first_select_cell,
     last_select_cell |-> last_select_cell, active_cell |-> active_cell,
     col_widths |-> col_widths, row_heights |-> row_heights,
     open_side_menu |-> open_side_menu, tasks |-> tasks]

\* The action just handled: its name and arguments. a and b are its
\* coordinates, size the (rows, cols) of AddNestedGrid, order the order in
\* which query_col / query_row returned its cells, text a string argument
\* (new value, title, lookup variant, file name), files a list of files.
Act(op) ==
    [op |-> op, a |-> None, b |-> None, size |-> <<0, 0>>, order |-> << >>,
     text |-> "", files |-> << >>]

Init ==
    /\ title = "my session"
    /\ root = root_grammar
    /\ meta = meta_grammar
    /\ grammars = InitGrammars
    /\ first_select_cell = None
    /\ last_select_cell = None
    /\ active_cell = rootA1
    /\ col_widths = InitColWidths
    /\ row_heights = InitRowHeights
    /\ open_side_menu = None
    /\ tasks = 0
    /\ panicked = FALSE
    /\ ret = FALSE
    /\ last = Act("create")
    /\ pre = Snapshot
    /\ steps = 0

\* Every handler runs on a live model and is recorded in last/pre.
Handled(act) ==
    /\ ~panicked
    /\ steps < MaxSteps
    /\ steps' = steps + 1
    /\ last' = act
    /\ pre' = Snapshot

-----------------------------------------------------------------------------
(* Component::update, one action per arm of the match                       *)

\* Action::Noop => false
Noop ==
    /\ Handled(Act("Noop"))
    /\ ret' = FALSE /\ panicked' = FALSE
    /\ UNCHANGED <<title, root, meta, grammars, first_select_cell,
                   last_select_cell, active_cell, col_widths, row_heights,
                   open_side_menu, tasks>>

\* Action::Alert(message) => false (the message only goes to the console)
Alert ==
    /\ Handled(Act("Alert"))
    /\ ret' = FALSE /\ panicked' = FALSE
    /\ UNCHANGED <<title, root, meta, grammars, first_select_cell,
                   last_select_cell, active_cell, col_widths, row_heights,
                   open_side_menu, tasks>>

\* The kind ChangeInput leaves at an existing node.
ChangeInputKind(g, new_value) ==
    CASE g.kind.tag = "Input" -> Input(new_value)
      [] g.kind.tag = "Lookup" -> LookupKind(new_value, g.kind.lookup_type)
      [] OTHER -> g.kind

\* A faulty variant of ChangeInput: the first arm also matches a Lookup, so
\* the node becomes an Input holding the new value.
ChangeInputAsInput(coord, new_value) ==
    /\ Handled([Act("ChangeInput") EXCEPT !.a = coord, !.text = new_value])
    /\ grammars' =
         IF contains_key(grammars, coord)
            /\ grammars[coord].kind.tag \in {"Input", "Lookup"}
         THEN [grammars EXCEPT ![coord].kind = Input(new_value)]
         ELSE grammars
    /\ ret' = FALSE /\ panicked' = FALSE
    /\ UNCHANGED <<title, root, meta, first_select_cell, last_select_cell,
                   active_cell, col_widths, row_heights, open_side_menu, tasks>>

\* Action::ChangeInput(coord, new_value) => false
ChangeInput(coord, new_value) ==
    /\ Handled([Act("ChangeInput") EXCEPT !.a = coord, !.text = new_value])
    /\ grammars' =
         IF contains_key(grammars, coord)
         THEN [grammars EXCEPT
                 ![coord].kind = ChangeInputKind(grammars[coord], new_value)]
         ELSE grammars
    /\ ret' = FALSE /\ panicked' = FALSE
    /\ UNCHANGED <<title, root, meta, first_select_cell, last_select_cell,
                   active_cell, col_widths, row_heights, open_side_menu, tasks>>

\* A faulty variant of SetActiveCell: the end of the selected range is kept.
SetActiveCellKeepingRange(coord) ==
    /\ Handled([Act("SetActiveCell") EXCEPT !.a = coord])
    /\ first_select_cell' = coord
    /\ active_cell' = coord
    /\ ret' = TRUE /\ panicked' = FALSE
    /\ UNCHANGED <<title, root, meta, grammars, last_select_cell, col_widths,
                   row_heights, open_side_menu, tasks>>

\* Action::SetActiveCell(coord) => true
SetActiveCell(coord) ==
    /\ Handled([Act("SetActiveCell") EXCEPT !.a = coord])
    /\ first_select_cell' = coord
    /\ last_select_cell' = None
    /\ active_cell' = coord
    /\ ret' = TRUE /\ panicked' = FALSE
    /\ UNCHANGED <<title, root, meta, grammars, col_widths, row_heights,
                   open_side_menu, tasks>>

\* Action::SetSelectedCells(coord) => true
SetSelectedCells(coord) ==
    /\ Handled([Act("SetSelectedCells") EXCEPT !.a = coord])
    /\ last_select_cell' = coord
    /\ ret' = TRUE /\ panicked' = FALSE
    /\ UNCHANGED <<title, root, meta, grammars, first_select_cell, active_cell,
                   col_widths, row_heights, open_side_menu, tasks>>

\* crate::util::resize(model, coord, row_height, col_width): overwrites the
\* two dimension entries keyed by coord.full_row() / coord.full_col().
resize_rows(rh, coord, row_height) == insert(rh, full_row(coord), row_height)
resize_cols(cw, coord, col_width) == insert(cw, full_col(coord), col_width)

\* A faulty variant of DoCompletion: a missing dimension entry is replaced
\* by the baseline (unwrap_or) instead of failing.
DoCompletionWithDefaults(source_coord, dest_coord) ==
    /\ Handled([Act("DoCompletion") EXCEPT !.a = source_coord,
                                            !.b = dest_coord])
    /\ grammars' = move_grammar(grammars, source_coord, dest_coord)
    /\ row_heights' =
         resize_rows(row_heights, dest_coord,
                     IF contains_key(row_heights, full_row(dest_coord))
                     THEN row_heights[full_row(dest_coord)] ELSE 30)
    /\ col_widths' =
         resize_cols(col_widths, dest_coord,
                     IF contains_key(col_widths, full_col(dest_coord))
                     THEN col_widths[full_col(dest_coord)] ELSE 90)
    /\ ret' = TRUE /\ panicked' = FALSE
    /\ UNCHANGED <<title, root, meta, first_select_cell, last_select_cell,
                   active_cell, open_side_menu, tasks>>

\* Action::DoCompletion(source_coord, dest_coord) => true
\* The move is done first; either unwrap() panics on a missing dimension.
DoCompletion(source_coord, dest_coord) ==
    /\ Handled([Act("DoCompletion") EXCEPT !.a = source_coord,
                                            !.b = dest_coord])
    /\ grammars' = move_grammar(grammars, source_coord, dest_coord)
    /\ IF contains_key(row_heights, full_row(dest_coord))
          /\ contains_key(col_widths, full_col(dest_coord))
       THEN /\ row_heights' = resize_rows(row_heights, dest_coord,
                                          row_heights[full_row(dest_coord)])
            /\ col_widths' = resize_cols(col_widths, dest_coord,
                                         col_widths[full_col(dest_coord)])
            /\ ret' = TRUE /\ panicked' = FALSE
       ELSE /\ UNCHANGED <<row_heights, col_widths>>
            /\ ret' = FALSE /\ panicked' = TRUE
    /\ UNCHANGED <<title, root, meta, first_select_cell, last_select_cell,
                   active_cell, open_side_menu, tasks>>

\* Action::SetActiveMenu(active_menu) => true
SetActiveMenu(active_menu) ==
    /\ Handled(Act("SetActiveMenu"))
    /\ open_side_menu' = active_menu
    /\ ret' = TRUE /\ panicked' = FALSE
    /\ UNCHANGED <<title, root, meta, grammars, first_select_cell,
                   last_select_cell, active_cell, col_widths, row_heights,
                   tasks>>

\* A faulty variant of ReadSession: the handler does not wait for the reader
\* task and loads a session (here an empty 1x1 document) before it returns.
ReadSessionLoadingInline(file) ==
    /\ Handled([Act("ReadSession") EXCEPT !.files = <<file>>])
    /\ tasks' = tasks + 1
    /\ root' = as_grid(1, 1)
    /\ meta' = as_grid(1, 1)
    /\ grammars' = [k \in {coord_root, coord_meta} |-> as_grid(1, 1)]
    /\ ret' = TRUE /\ panicked' = FALSE
    /\ UNCHANGED <<title, first_select_cell, last_select_cell, active_cell,
                   col_widths, row_heights, open_side_menu>>

\* Action::ReadSession(file) => false; one reader task is pushed.
ReadSession(file) ==
    /\ Handled([Act("ReadSession") EXCEPT !.files = <<file>>])
    /\ tasks' = tasks + 1
    /\ ret' = FALSE /\ panicked' = FALSE
    /\ UNCHANGED <<title, root, meta, grammars, first_select_cell,
                   last_select_cell, active_cell, col_widths, row_heights,
                   open_side_menu>>

\* format!{"{:?}", file_data}: the Debug rendering of the FileData struct,
\* `FileData { name: .., content: [..] }`, not the text held in its content.
DebugFormat(file_data) == [fmt |-> "debug", body |-> file_data]

\* serde_json::from_str::<Session>(text): Ok(session) only for JSON text.
from_str(text) ==
    IF text.fmt = "json"
    THEN [ok |-> TRUE, val |-> text.body]
    ELSE [ok |-> FALSE, val |-> None]

\* std::str::from_utf8(bytes): Err on bytes that are not UTF-8.
from_utf8(content) ==
    IF content.fmt = "binary"
    THEN [ok |-> FALSE, val |-> None]
    ELSE [ok |-> TRUE, val |-> content]

\* Model::load_session(session): root, meta and grammars are replaced.
load_session(session) ==
    /\ root' = session.root
    /\ meta' = session.meta
    /\ grammars' = session.grammars

\* A faulty variant of LoadSession: the text held in the file's content is
\* parsed, instead of the Debug rendering of the FileData, and loaded as is.
LoadSessionFromContent(file_data) ==
    /\ Handled([Act("LoadSession") EXCEPT !.text = file_data.name])
    /\ LET parsed == from_str(file_data.content)
       IN IF parsed.ok
          THEN /\ load_session(parsed.val)
               /\ ret' = TRUE /\ panicked' = FALSE
          ELSE /\ UNCHANGED <<root, meta, grammars>>
               /\ ret' = FALSE /\ panicked' = TRUE
    /\ UNCHANGED <<title, first_select_cell, last_select_cell, active_cell,
                   col_widths, row_heights, open_side_menu, tasks>>

\* Action::LoadSession(file_data) => true; unwrap() panics on a parse error.
LoadSession(file_data) ==
    /\ Handled([Act("LoadSession") EXCEPT !.text = file_data.name])
    /\ LET parsed == from_str(DebugFormat(file_data))
       IN IF parsed.ok
          THEN /\ load_session(parsed.val)
               /\ ret' = TRUE /\ panicked' = FALSE
          ELSE /\ UNCHANGED <<root, meta, grammars>>
               /\ ret' = FALSE /\ panicked' = TRUE
    /\ UNCHANGED <<title, first_select_cell, last_select_cell, active_cell,
                   col_widths, row_heights, open_side_menu, tasks>>

\* Action::SaveSession() => false (the body is commented out)
SaveSession ==
    /\ Handled(Act("SaveSession"))
    /\ ret' = FALSE /\ panicked' = FALSE
    /\ UNCHANGED <<title, root, meta, grammars, first_select_cell,
                   last_select_cell, active_cell, col_widths, row_heights,
                   open_side_menu, tasks>>

\* Action::SetSessionTitle(name) => true
SetSessionTitle(name) ==
    /\ Handled([Act("SetSessionTitle") EXCEPT !.text = name])
    /\ title' = name
    /\ ret' = TRUE /\ panicked' = FALSE
    /\ UNCHANGED <<root, meta, grammars, first_select_cell, last_select_cell,
                   active_cell, col_widths, row_heights, open_side_menu, tasks>>

\* The match guard of ReadDriverFiles: the path, split at "/", has two
\* parts and the second is the first followed by ".js".
IsMainFile(file) ==
    /\ Len(file.path) = 2
    /\ file.path[1] \o ".js" = file.path[2]

\* A faulty variant of ReadDriverFiles: a list without a main file is
\* accepted and only its misc files are read.
ReadDriverFilesLenient(files_list) ==
    /\ Handled([Act("ReadDriverFiles") EXCEPT !.files = files_list])
    /\ LET main_files == SelectSeq(files_list, IsMainFile)
           misc_files == SelectSeq(files_list, LAMBDA f : ~IsMainFile(f))
       IN IF Len(main_files) <= 1
          THEN /\ tasks' = tasks + Len(misc_files) + Len(main_files)
               /\ ret' = FALSE /\ panicked' = FALSE
          ELSE /\ tasks' = tasks
               /\ ret' = FALSE /\ panicked' = TRUE
    /\ UNCHANGED <<title, root, meta, grammars, first_select_cell,
                   last_select_cell, active_cell, col_widths, row_heights,
                   open_side_menu>>

\* Action::ReadDriverFiles(files_list) => false
\* The fold panics on a second main file, first().unwrap() panics on none;
\* otherwise one task per misc file and one for the main file are pushed.
ReadDriverFiles(files_list) ==
    /\ Handled([Act("ReadDriverFiles") EXCEPT !.files = files_list])
    /\ LET main_files == SelectSeq(files_list, IsMainFile)
           misc_files == SelectSeq(files_list, LAMBDA f : ~IsMainFile(f))
       IN IF Len(main_files) = 1
          THEN /\ tasks' = tasks + Len(misc_files) + 1
               /\ ret' = FALSE /\ panicked' = FALSE
          ELSE /\ tasks' = tasks
               /\ ret' = FALSE /\ panicked' = TRUE
    /\ UNCHANGED <<title, root, meta, grammars, first_select_cell,
                   last_select_cell, active_cell, col_widths, row_heights,
                   open_side_menu>>

\* Action::UploadDriverMiscFile(file_data) => false
\* from_utf8(..).unwrap() panics on non-UTF-8 content; the rest is an IPC send.
UploadDriverMiscFile(file_data) ==
    /\ Handled([Act("UploadDriverMiscFile") EXCEPT !.text = file_data.name])
    /\ ret' = FALSE
    /\ panicked' = ~from_utf8(file_data.content).ok
    /\ UNCHANGED <<title, root, meta, grammars, first_select_cell,
                   last_select_cell, active_cell, col_widths, row_heights,
                   open_side_menu, tasks>>

\* Action::LoadDriverMainFile(main_file_data) => true
\* from_utf8(..).unwrap() panics on non-UTF-8 content; the rest is DOM work.
LoadDriverMainFile(main_file_data) ==
    /\ Handled([Act("LoadDriverMainFile") EXCEPT
                  !.text = main_file_data.name])
    /\ IF from_utf8(main_file_data.content).ok
       THEN ret' = TRUE /\ panicked' = FALSE
       ELSE ret' = FALSE /\ panicked' = TRUE
    /\ UNCHANGED <<title, root, meta, grammars, first_select_cell,
                   last_select_cell, active_cell, col_widths, row_heights,
                   open_side_menu, tasks>>

\* Baseline dimensions (tmp_heigt, tmp_width) and the hard-coded divisor.
DefaultRowHeight == 30
DefaultColWidth == 90
HardCodedSplit == 3

\* The loop over sub_coords of AddNestedGrid, from index n on: a default leaf
\* at every child coordinate, and a dimension entry where there is none yet.
RECURSIVE AddSubCoords(_, _, _, _, _, _)
AddSubCoords(st, coord, sub_coords, n, tmp_heigt, tmp_width) ==
    IF n > Len(sub_coords) THEN st
    ELSE LET new_coord == child_of(coord, sub_coords[n])
             next ==
                 [g  |-> insert(st.g, new_coord, GrammarDefault),
                  rh |-> IF contains_key(st.rh, full_row(new_coord)) THEN st.rh
                         ELSE insert(st.rh, full_row(new_coord), tmp_heigt),
                  cw |-> IF contains_key(st.cw, full_col(new_coord)) THEN st.cw
                         ELSE insert(st.cw, full_col(new_coord), tmp_width)]
         IN AddSubCoords(next, coord, sub_coords, n + 1, tmp_heigt, tmp_width)

\* A faulty variant of SetParentAndGrid: the grid is inserted at coord and
\* the parent is left as it was.
SetGridOnly(g, coord, grammar) == insert(g, coord, grammar)

\* The map after the parent of coord, when stored, took the grid's kind
\* and the grid itself was inserted at coord.
SetParentAndGrid(g, coord, grammar) ==
    LET p == parent(coord)
        g1 == IF p # None /\ contains_key(g, p)
              THEN [g EXCEPT ![p].kind = grammar.kind]
              ELSE g
    IN insert(g1, coord, grammar)

\* A faulty variant of AddNestedGrid: the final resize of coord is left out.
AddNestedGridWithoutResize(coord, rows, cols) ==
    /\ Handled([Act("AddNestedGrid") EXCEPT !.a = coord,
                                             !.size = <<rows, cols>>])
    /\ LET grammar == as_grid(rows, cols)
           sub_coords == grammar.kind.sub_coords
       IN /\ active_cell' = IF sub_coords = << >> THEN None
                            ELSE child_of(coord, sub_coords[1])
          /\ IF contains_key(col_widths, full_col(coord))
                /\ contains_key(row_heights, full_row(coord))
             THEN LET current_width == col_widths[full_col(coord)]
                      current_height == row_heights[full_row(coord)]
                      tmp_width == IF current_width > DefaultColWidth
                                   THEN current_width \div HardCodedSplit
                                   ELSE DefaultColWidth
                      tmp_heigt == IF current_height > DefaultRowHeight
                                   THEN current_height \div HardCodedSplit
                                   ELSE DefaultRowHeight
                      st == AddSubCoords([g |-> grammars, rh |-> row_heights,
                                          cw |-> col_widths],
                                         coord, sub_coords, 1, tmp_heigt, tmp_width)
                  IN /\ grammars' = SetParentAndGrid(st.g, coord, grammar)
                     /\ row_heights' = st.rh
                     /\ col_widths' = st.cw
                     /\ ret' = TRUE /\ panicked' = FALSE
             ELSE /\ UNCHANGED <<grammars, row_heights, col_widths>>
                  /\ ret' = FALSE /\ panicked' = TRUE
    /\ UNCHANGED <<title, root, meta, first_select_cell, last_select_cell,
                   open_side_menu, tasks>>

\* Action::AddNestedGrid(coord, (rows, cols)) => true, rows, cols >= 1
\* active_cell is set first; indexing col_widths / row_heights with the
\* keys of coord panics when either entry is missing.
AddNestedGrid(coord, rows, cols) ==
    /\ Handled([Act("AddNestedGrid") EXCEPT !.a = coord,
                                             !.size = <<rows, cols>>])
    /\ LET grammar == as_grid(rows, cols)
           sub_coords == grammar.kind.sub_coords
       IN /\ active_cell' = IF sub_coords = << >> THEN None
                            ELSE child_of(coord, sub_coords[1])
          /\ IF contains_key(col_widths, full_col(coord))
                /\ contains_key(row_heights, full_row(coord))
             THEN LET current_width == col_widths[full_col(coord)]
                      current_height == row_heights[full_row(coord)]
                      tmp_width == IF current_width > DefaultColWidth
                                   THEN current_width \div HardCodedSplit
                                   ELSE DefaultColWidth
                      tmp_heigt == IF current_height > DefaultRowHeight
                                   THEN current_height \div HardCodedSplit
                                   ELSE DefaultRowHeight
                      st == AddSubCoords([g |-> grammars, rh |-> row_heights,
                                          cw |-> col_widths],
                                         coord, sub_coords, 1, tmp_heigt, tmp_width)
                  IN /\ grammars' = SetParentAndGrid(st.g, coord, grammar)
                     /\ row_heights' =
                          resize_rows(st.rh, coord, rows * DefaultRowHeight)
                     /\ col_widths' =
                          resize_cols(st.cw, coord, cols * DefaultColWidth)
                     /\ ret' = TRUE /\ panicked' = FALSE
             ELSE /\ UNCHANGED <<grammars, row_heights, col_widths>>
                  /\ ret' = FALSE /\ panicked' = TRUE
    /\ UNCHANGED <<title, root, meta, first_select_cell, last_select_cell,
                   open_side_menu, tasks>>

\* The walk of InsertCol / InsertRow from the active cell to the last
\* stored cell on its right / below it.
RECURSIVE right_most_coord(_, _)
right_most_coord(g, coord) ==
    IF contains_key(g, neighbor_right(coord))
    THEN right_most_coord(g, neighbor_right(coord))
    ELSE coord

RECURSIVE bottom_most_coord(_, _)
bottom_most_coord(g, coord) ==
    IF contains_key(g, neighbor_below(coord))
    THEN bottom_most_coord(g, neighbor_below(coord))
    ELSE coord

\* Model::query_col / Model::query_row: the stored coordinates of length > 1
\* with the given full_col / full_row (as a set; the Vec has some order).
query_col(g, coord_col) ==
    {k \in DOMAIN g : Len(k) # 1 /\ full_col(k) = coord_col}
query_row(g, coord_row) ==
    {k \in DOMAIN g : Len(k) # 1 /\ full_row(k) = coord_row}

\* Model::query_parent: the stored coordinates whose parent is coord_parent.
query_parent(g, coord_parent) ==
    {k \in DOMAIN g : parent(k) = coord_parent}

\* The loop `for c in new_.._coords` of InsertCol / InsertRow, from index n
\* on: a default leaf under parent at each pair, the pair pushed on the list.
RECURSIVE InsertCells(_, _, _, _)
InsertCells(st, par, new_coords, n) ==
    IF n > Len(new_coords) THEN st
    ELSE InsertCells(
           [g |-> insert(st.g, child_of(par, new_coords[n]), GrammarDefault),
            subs |-> Append(st.subs, new_coords[n])],
           par, new_coords, n + 1)

\* The map after the insertion loop and the rewrite of the parent Grid,
\* which keeps its name and style.
GrowGrid(g, par, new_coords) ==
    LET st == InsertCells([g |-> g, subs |-> g[par].kind.sub_coords],
                          par, new_coords, 1)
    IN insert(st.g, par,
              Grammar(g[par].name, g[par].style, Grid(st.subs)))

IsGridAt(g, c) == c # None /\ contains_key(g, c) /\ g[c].kind.tag = "Grid"

\* The orders in which query_col / query_row can return the cells of the
\* frontier's column / row for the current active cell.
ColOrders ==
    IF active_cell = None THEN {<< >>}
    ELSE Orders(query_col(grammars,
                          full_col(right_most_coord(grammars, active_cell))))
RowOrders ==
    IF active_cell = None THEN {<< >>}
    ELSE Orders(query_row(grammars,
                          full_row(bottom_most_coord(grammars, active_cell))))

\* Action::InsertCol => true
\* coord.parent().unwrap() panics for a length-1 active cell. `order` is the
\* order in which query_col returned the frontier column's cells.
InsertCol ==
  \E order \in ColOrders :
    /\ Handled([Act("InsertCol") EXCEPT !.order = order])
    /\ IF active_cell = None
       THEN /\ grammars' = grammars
            /\ ret' = TRUE /\ panicked' = FALSE
       ELSE LET right_most == right_most_coord(grammars, active_cell)
                par == parent(active_cell)
            IN IF par = None
               THEN /\ grammars' = grammars
                    /\ ret' = FALSE /\ panicked' = TRUE
               ELSE /\ grammars' =
                         IF IsGridAt(grammars, par)
                         THEN GrowGrid(grammars, par,
                                [i \in DOMAIN order |->
                                   <<row(order[i]), col(order[i]) + 1>>])
                         ELSE grammars
                    /\ ret' = TRUE /\ panicked' = FALSE
    /\ UNCHANGED <<title, root, meta, first_select_cell, last_select_cell,
                   active_cell, col_widths, row_heights, open_side_menu, tasks>>

\* A faulty variant of InsertRow: the arm of InsertCol copied without
\* turning its walk, query and increment to the row axis.
InsertRowAlongCol ==
  \E order \in ColOrders :
    /\ Handled([Act("InsertRow") EXCEPT !.order = order])
    /\ IF active_cell = None
       THEN /\ grammars' = grammars
            /\ ret' = TRUE /\ panicked' = FALSE
       ELSE LET par == parent(active_cell)
            IN IF par = None
               THEN /\ grammars' = grammars
                    /\ ret' = FALSE /\ panicked' = TRUE
               ELSE /\ grammars' =
                         IF IsGridAt(grammars, par)
                         THEN GrowGrid(grammars, par,
                                [i \in DOMAIN order |->
                                   <<row(order[i]), col(order[i]) + 1>>])
                         ELSE grammars
                    /\ ret' = TRUE /\ panicked' = FALSE
    /\ UNCHANGED <<title, root, meta, first_select_cell, last_select_cell,
                   active_cell, col_widths, row_heights, open_side_menu, tasks>>

\* Action::InsertRow => true, the same along the other axis.
InsertRow ==
  \E order \in RowOrders :
    /\ Handled([Act("InsertRow") EXCEPT !.order = order])
    /\ IF active_cell = None
       THEN /\ grammars' = grammars
            /\ ret' = TRUE /\ panicked' = FALSE
       ELSE LET par == parent(active_cell)
            IN IF par = None
               THEN /\ grammars' = grammars
                    /\ ret' = FALSE /\ panicked' = TRUE
               ELSE /\ grammars' =
                         IF IsGridAt(grammars, par)
                         THEN GrowGrid(grammars, par,
                                [i \in DOMAIN order |->
                                   <<row(order[i]) + 1, col(order[i])>>])
                         ELSE grammars
                    /\ ret' = TRUE /\ panicked' = FALSE
    /\ UNCHANGED <<title, root, meta, first_select_cell, last_select_cell,
                   active_cell, col_widths, row_heights, open_side_menu, tasks>>

\* Lookup::Cell(dest_coord) and the other variants of crate::grammar::Lookup.
LookupCell(dest_coord) == <<"Cell", dest_coord>>
LookupOther == <<"Other">>

\* A faulty variant of Lookup: source and destination are swapped in the
\* call of move_grammar.
LookupSwapped(source_coord, lookup_type) ==
    /\ Handled([Act("Lookup") EXCEPT
                  !.a = source_coord,
                  !.b = IF lookup_type[1] = "Cell" THEN lookup_type[2] ELSE None,
                  !.text = lookup_type[1]])
    /\ grammars' =
         IF lookup_type[1] = "Cell"
         THEN move_grammar(grammars, lookup_type[2], source_coord)
         ELSE grammars
    /\ ret' = FALSE /\ panicked' = FALSE
    /\ UNCHANGED <<title, root, meta, first_select_cell, last_select_cell,
                   active_cell, col_widths, row_heights, open_side_menu, tasks>>

\* A faulty variant of Lookup: the destination is cleared before the move,
\* whether or not the source is stored.
LookupClearingDest(source_coord, lookup_type) ==
    /\ Handled([Act("Lookup") EXCEPT
                  !.a = source_coord,
                  !.b = IF lookup_type[1] = "Cell" THEN lookup_type[2] ELSE None,
                  !.text = lookup_type[1]])
    /\ grammars' =
         IF lookup_type[1] = "Cell"
         THEN IF contains_key(grammars, source_coord)
              THEN move_grammar(grammars, source_coord, lookup_type[2])
              ELSE remove(grammars, lookup_type[2])
         ELSE grammars
    /\ ret' = FALSE /\ panicked' = FALSE
    /\ UNCHANGED <<title, root, meta, first_select_cell, last_select_cell,
                   active_cell, col_widths, row_heights, open_side_menu, tasks>>

\* A faulty variant of Lookup: the move takes the whole subtree along, the
\* nodes stored under the source are re-addressed under the destination.
LookupMovingSubtree(source_coord, lookup_type) ==
    /\ Handled([Act("Lookup") EXCEPT
                  !.a = source_coord,
                  !.b = IF lookup_type[1] = "Cell" THEN lookup_type[2] ELSE None,
                  !.text = lookup_type[1]])
    /\ grammars' =
         IF lookup_type[1] = "Cell" /\ contains_key(grammars, source_coord)
         THEN LET dest == lookup_type[2]
                  Under(k, c) == Len(k) >= Len(c) /\ SubSeq(k, 1, Len(c)) = c
                  Rest(k, c) == SubSeq(k, Len(c) + 1, Len(k))
                  kept == {k \in DOMAIN grammars : ~Under(k, source_coord)}
                  taken == {k \in DOMAIN grammars : Under(k, source_coord)}
              IN [x \in kept \cup {dest \o Rest(k, source_coord) : k \in taken}
                    |-> IF Under(x, dest)
                           /\ source_coord \o Rest(x, dest) \in taken
                        THEN grammars[source_coord \o Rest(x, dest)]
                        ELSE grammars[x]]
         ELSE grammars
    /\ ret' = FALSE /\ panicked' = FALSE
    /\ UNCHANGED <<title, root, meta, first_select_cell, last_select_cell,
                   active_cell, col_widths, row_heights, open_side_menu, tasks>>

\* Action::Lookup(source_coord, lookup_type) => false
Lookup(source_coord, lookup_type) ==
    /\ Handled([Act("Lookup") EXCEPT
                  !.a = source_coord,
                  !.b = IF lookup_type[1] = "Cell" THEN lookup_type[2] ELSE None,
                  !.text = lookup_type[1]])
    /\ grammars' =
         IF lookup_type[1] = "Cell"
         THEN move_grammar(grammars, source_coord, lookup_type[2])
         ELSE grammars
    /\ ret' = FALSE /\ panicked' = FALSE
    /\ UNCHANGED <<title, root, meta, first_select_cell, last_select_cell,
                   active_cell, col_widths, row_heights, open_side_menu, tasks>>

\* The kind ToggleLookup leaves at an existing node.
ToggleLookupKind(g) ==
    CASE g.kind.tag = "Input" -> LookupKind("", None)
      [] g.kind.tag = "Lookup" -> Input("")
      [] OTHER -> g.kind

\* A faulty variant of ToggleLookup: a value-preserving conversion, the
\* input text becomes the query and the query becomes the input text.
ToggleLookupKeepingText(coord) ==
    /\ Handled([Act("ToggleLookup") EXCEPT !.a = coord])
    /\ grammars' =
         IF contains_key(grammars, coord)
         THEN [grammars EXCEPT ![coord].kind =
                 CASE @.tag = "Input" -> LookupKind(@.text, None)
                   [] @.tag = "Lookup" -> Input(@.text)
                   [] OTHER -> @]
         ELSE grammars
    /\ ret' = TRUE /\ panicked' = FALSE
    /\ UNCHANGED <<title, root, meta, first_select_cell, last_select_cell,
                   active_cell, col_widths, row_heights, open_side_menu, tasks>>

\* Action::ToggleLookup(coord) => true
ToggleLookup(coord) ==
    /\ Handled([Act("ToggleLookup") EXCEPT !.a = coord])
    /\ grammars' =
         IF contains_key(grammars, coord)
         THEN [grammars EXCEPT ![coord].kind = ToggleLookupKind(grammars[coord])]
         ELSE grammars
    /\ ret' = TRUE /\ panicked' = FALSE
    /\ UNCHANGED <<title, root, meta, first_select_cell, last_select_cell,
                   active_cell, col_widths, row_heights, open_side_menu, tasks>>

\* Action::DefnUpdateName / DefnUpdateRule / DefnAddRule => false
DefnUpdateName(coord, name) ==
    /\ Handled([Act("DefnUpdateName") EXCEPT !.a = coord, !.text = name])
    /\ ret' = FALSE /\ panicked' = FALSE
    /\ UNCHANGED <<title, root, meta, grammars, first_select_cell,
                   last_select_cell, active_cell, col_widths, row_heights,
                   open_side_menu, tasks>>

DefnUpdateRule(coord, rule_row) ==
    /\ Handled([Act("DefnUpdateRule") EXCEPT !.a = coord])
    /\ ret' = FALSE /\ panicked' = FALSE
    /\ UNCHANGED <<title, root, meta, grammars, first_select_cell,
                   last_select_cell, active_cell, col_widths, row_heights,
                   open_side_menu, tasks>>

DefnAddRule(coord) ==
    /\ Handled([Act("DefnAddRule") EXCEPT !.a = coord])
    /\ ret' = FALSE /\ panicked' = FALSE
    /\ UNCHANGED <<title, root, meta, grammars, first_select_cell,
                   last_select_cell, active_cell, col_widths, row_heights,
                   open_side_menu, tasks>>

-----------------------------------------------------------------------------
(* The arguments the view and the reader callbacks send with the actions.   *)

rootA1A1 == child_of(rootA1, <<1, 1>>)
rootA4 == child_of(coord_root, <<4, 1>>)
rootB2A1A1 == child_of(child_of(rootB2, <<1, 1>>), <<1, 1>>)

\* Cells the user can click: a length-1 coordinate, cells of a Grid, a cell
\* whose parent is a Defn.
ActiveInputs == {coord_root, rootA1, metaA3A1, metaA3B1A1}
SelectInputs == {rootB2}

\* <<source, destination>> of a move: onto a stored cell, onto itself, from
\* a coordinate not stored at first, of a Grid, to a cell with no parent,
\* of the root Grid.
MoveInputs ==
    {<<metaA1, rootB1>>, <<metaA1, metaA1>>, <<rootA1A1, rootA2>>,
     <<metaA3B1, rootA3>>, <<rootB1, rootB2A1A1>>, <<coord_root, rootB3>>}

GridCoordInputs == {rootA1, metaA1, metaA2, rootA4}
GridSizeInputs == {<<1, 1>>, <<2, 2>>, <<2, 3>>}

\* Coordinates of the text actions: an Input leaf, a Grid, a Defn, and a
\* coordinate that is not stored at first.
TextCoordInputs == {metaA1, coord_root, metaA3, rootA1A1}
TextInputs == {"new text"}
TitleInputs == {"renamed"}
MenuInputs == {None, <<1>>}

\* Sessions as JSON text: one that satisfies the store invariants and one
\* whose root Grid lists a child that the payload does not hold.
GoodSession ==
    LET rg == Grammar("root", StyleDefault,
                      Grid(<< <<1, 1>>, <<2, 1>>, <<1, 2>>, <<2, 2>> >>))
        mg == Grammar("meta", StyleDefault, Grid(<< >>))
        keys == {coord_root, coord_meta, rootA1, rootA2, rootB1, rootB2}
    IN [title |-> "loaded", root |-> rg, meta |-> mg,
        grammars |-> [k \in keys |->
                        CASE k = coord_root -> rg
                          [] k = coord_meta -> mg
                          [] OTHER -> GrammarDefault]]
BadSession ==
    [GoodSession EXCEPT !.grammars = remove(GoodSession.grammars, rootB2)]

FileData(name, content) == [name |-> name, content |-> content]
SessionFiles ==
    {FileData("good.json", [fmt |-> "json", body |-> GoodSession]),
     FileData("bad.json", [fmt |-> "json", body |-> BadSession])}
DriverFileData ==
    {FileData("drv.js", [fmt |-> "text", body |-> None]),
     FileData("logo.png", [fmt |-> "binary", body |-> None])}

File(path) == [path |-> path]
DriverFileLists ==
    {<<File(<<"drv", "drv.js">>), File(<<"drv", "util.js">>)>>,
     <<File(<<"readme.md">>), File(<<"drv", "drv.js">>),
       File(<<"drv", "img", "logo.png">>)>>,
     <<File(<<"drv", "util.js">>)>>,
     <<File(<<"drv", "drv.js">>), File(<<"drv", "drv.js">>)>>}

Next ==
    \/ Noop
    \/ Alert
    \/ \E c \in TextCoordInputs, t \in TextInputs : ChangeInput(c, t)
    \/ \E c \in ActiveInputs : SetActiveCell(c)
    \/ \E c \in SelectInputs : SetSelectedCells(c)
    \/ \E m \in MoveInputs : DoCompletion(m[1], m[2])
    \/ \E m \in MenuInputs : SetActiveMenu(m)
    \/ ReadSession(File(<<"good.json">>))
    \/ \E fd \in SessionFiles : LoadSession(fd)
    \/ SaveSession
    \/ \E t \in TitleInputs : SetSessionTitle(t)
    \/ \E fl \in DriverFileLists : ReadDriverFiles(fl)
    \/ \E fd \in DriverFileData : UploadDriverMiscFile(fd)
    \/ \E fd \in DriverFileData : LoadDriverMainFile(fd)
    \/ \E c \in GridCoordInputs, rc \in GridSizeInputs :
         AddNestedGrid(c, rc[1], rc[2])
    \/ InsertRow
    \/ InsertCol
    \/ \E m \in MoveInputs : Lookup(m[1], LookupCell(m[2]))
    \/ \E c \in TextCoordInputs : Lookup(c, LookupOther)
    \/ \E c \in TextCoordInputs : ToggleLookup(c)
    \/ DefnUpdateName(metaA3, "renamed")
    \/ DefnUpdateRule(metaA3, full_row(metaA3B1))
    \/ DefnAddRule(metaA3)

Spec == Init /\ [][Next]_vars

-----------------------------------------------------------------------------
(* Vocabulary of the properties: the action just handled and what it did.   *)

Stored(g, k) == k \in DOMAIN g

\* The entry at k is the same before and after the last action.
SameEntry(k) ==
    /\ Stored(grammars, k) <=> Stored(pre.grammars, k)
    /\ Stored(grammars, k) => grammars[k] = pre.grammars[k]

AllCoords == DOMAIN grammars \cup DOMAIN pre.grammars

\* The last action moved (or tried to move) a node from last.a to last.b.
IsMove ==
    \/ last.op = "DoCompletion"
    \/ last.op = "Lookup" /\ last.b # None

\* Every pair listed by a Grid of g addresses a stored node of g.
GridChildrenStored(g) ==
    \A c \in DOMAIN g :
        g[c].kind.tag = "Grid" =>
            \A i \in DOMAIN g[c].kind.sub_coords :
                Stored(g, child_of(c, g[c].kind.sub_coords[i]))

-----------------------------------------------------------------------------
\* C1: Grid/child consistency. In every state reached by the reducer, each
\* (row, col) pair in the child list of a stored Grid node at C addresses a
\* stored node child_of(C, (row, col)).
C1_GridChildConsistency == ~panicked => GridChildrenStored(grammars)

\* C2: Parent presence. In every state reached by the reducer, every stored
\* coordinate of length > 1 has its parent stored too.
C2_ParentPresence ==
    ~panicked =>
        \A k \in DOMAIN grammars : Len(k) > 1 => Stored(grammars, parent(k))

\* C3: Root/meta synchronisation. In every state reached by the reducer, the
\* session's root field is the node stored at the root coordinate and its
\* meta field is the node stored at the meta coordinate.
C3_RootMetaSynchronised ==
    ~panicked =>
        /\ Stored(grammars, coord_root) /\ grammars[coord_root] = root
        /\ Stored(grammars, coord_meta) /\ grammars[coord_meta] = meta

\* C4 as stated: after a move from a stored a to any b, b holds the node
\* that was at a and a is absent.
C4_MovePreservesPayload_Original ==
    (IsMove /\ Stored(pre.grammars, last.a)) =>
        /\ Stored(grammars, last.b)
        /\ grammars[last.b] = pre.grammars[last.a]
        /\ ~Stored(grammars, last.a)

\* C4 (amended): after a move from a stored a to a different b, b holds
\* exactly the node that was at a (whatever b held before) and a is absent;
\* a move of a stored a onto itself leaves the node at a.
C4_MovePreservesPayload ==
    (IsMove /\ Stored(pre.grammars, last.a)) =>
        /\ Stored(grammars, last.b)
        /\ grammars[last.b] = pre.grammars[last.a]
        /\ last.a # last.b => ~Stored(grammars, last.a)
        /\ last.a = last.b => Stored(grammars, last.a)

\* A move replaced a different node at b by the node of a.
C4_Witness ==
    /\ IsMove /\ last.a # last.b
    /\ Stored(pre.grammars, last.a) /\ Stored(pre.grammars, last.b)
    /\ pre.grammars[last.a] # pre.grammars[last.b]
    /\ Stored(grammars, last.b) /\ grammars[last.b] = pre.grammars[last.a]

\* C5: a Lookup-move whose source is not stored leaves grammars unchanged,
\* the node at the destination included, and does not fail.
C5_MoveAbsentSourceNoop ==
    (last.op = "Lookup" /\ last.b # None /\ ~Stored(pre.grammars, last.a)) =>
        /\ grammars = pre.grammars
        /\ ~panicked

\* A Lookup-move from an absent source to a stored destination was handled.
C5_Witness ==
    /\ last.op = "Lookup" /\ last.b # None
    /\ ~Stored(pre.grammars, last.a)
    /\ Stored(pre.grammars, last.b) /\ Stored(grammars, last.b)

-----------------------------------------------------------------------------
\* The frontier of the last InsertCol / InsertRow and the cells it found.
PreActive == pre.active_cell
PreParent == parent(pre.active_cell)
ColFrontier == right_most_coord(pre.grammars, pre.active_cell)
RowFrontier == bottom_most_coord(pre.grammars, pre.active_cell)
ColMembers == query_col(pre.grammars, full_col(ColFrontier))
RowMembers == query_row(pre.grammars, full_row(RowFrontier))
NewColPairs == {<<row(m), col(m) + 1>> : m \in ColMembers}
NewRowPairs == {<<row(m) + 1, col(m)>> : m \in RowMembers}

ExampleGrid == << <<1, 1>>, <<2, 1>>, <<1, 2>>, <<2, 2>> >>
ExampleResult ==
    << <<1, 1>>, <<2, 1>>, <<1, 2>>, <<2, 2>>, <<1, 3>>, <<2, 3>> >>

\* C6: InsertCol result. When the active cell's parent is a Grid, every
\* cell (r, c) of the frontier's column gets a default leaf at (r, c+1)
\* under the parent, the parent keeps name and style and its child list is
\* the old list followed by the new pairs; a Grid [(1,1),(2,1),(1,2),(2,2)]
\* with active cell (1,1) becomes [(1,1),(2,1),(1,2),(2,2),(1,3),(2,3)].
C6_InsertColResult ==
    (last.op = "InsertCol" /\ IsGridAt(pre.grammars, PreParent)) =>
        LET old == pre.grammars[PreParent]
            new == grammars[PreParent]
            n == Len(old.kind.sub_coords)
        IN /\ ~panicked
           /\ \A rc \in NewColPairs :
                /\ Stored(grammars, child_of(PreParent, rc))
                /\ grammars[child_of(PreParent, rc)] = GrammarDefault
           /\ new.name = old.name /\ new.style = old.style
           /\ new.kind.tag = "Grid"
           /\ Len(new.kind.sub_coords) = n + Cardinality(ColMembers)
           /\ SubSeq(new.kind.sub_coords, 1, n) = old.kind.sub_coords
           /\ {new.kind.sub_coords[i] :
                 i \in (n + 1) .. Len(new.kind.sub_coords)} = NewColPairs
           /\ (old.kind.sub_coords = ExampleGrid
               /\ PreActive = child_of(PreParent, <<1, 1>>)
               /\ ColMembers = {child_of(PreParent, <<1, 2>>),
                                child_of(PreParent, <<2, 2>>)})
              => new.kind.sub_coords = ExampleResult

\* The coordinates InsertRow writes: the cells right below the members of
\* the frontier's row, and the parent Grid.
RowInsertTargets ==
    {child_of(PreParent, rc) : rc \in NewRowPairs} \cup {PreParent}

\* C7 as stated: InsertRow changes only entries at coordinates that share
\* the frontier's full_row.
C7_InsertRowFrame_Original ==
    (last.op = "InsertRow" /\ ~panicked) =>
        \A k \in AllCoords :
            (Len(k) = 1 \/ full_row(k) # full_row(RowFrontier)) => SameEntry(k)

\* C7 (amended): InsertRow changes only the entries right below the cells
\* that share the frontier's full_row (same column, row + 1) and the entry
\* of the parent Grid; every other entry of grammars is identical before
\* and after, and the cells of the frontier's row themselves are untouched.
C7_InsertRowFrame ==
    (last.op = "InsertRow" /\ ~panicked) =>
        \A k \in AllCoords : k \notin RowInsertTargets => SameEntry(k)

\* An InsertRow under a Grid parent added cells below a non-empty row.
C7_Witness ==
    /\ last.op = "InsertRow" /\ ~panicked
    /\ IsGridAt(pre.grammars, PreParent)
    /\ RowMembers # {}
    /\ \E rc \in NewRowPairs : ~Stored(pre.grammars, child_of(PreParent, rc))
    /\ \A rc \in NewRowPairs : Stored(grammars, child_of(PreParent, rc))

\* C8: InsertRow and InsertCol complete and leave grammars unchanged when
\* the active cell has no parent or its parent is not a Grid.
C8_InsertWithoutGridParentNoop ==
    (last.op \in {"InsertRow", "InsertCol"}
     /\ (PreParent = None \/ ~IsGridAt(pre.grammars, PreParent))) =>
        /\ ~panicked
        /\ grammars = pre.grammars

-----------------------------------------------------------------------------
\* The session a reader task delivers in the content of a FileData.
PayloadSession(name) ==
    (CHOOSE fd \in SessionFiles : fd.name = name).content.body

\* The payload breaks a Document Store invariant: a listed Grid child or a
\* parent is missing, or root / meta differ from the stored nodes.
Malformed(session) ==
    \/ ~GridChildrenStored(session.grammars)
    \/ \E k \in DOMAIN session.grammars :
          Len(k) > 1 /\ ~Stored(session.grammars, parent(k))
    \/ ~Stored(session.grammars, coord_root)
    \/ ~Stored(session.grammars, coord_meta)

\* C9: a LoadSession whose payload lists a Grid child that the payload does
\* not hold is rejected, and root, meta and grammars of the current session
\* stay exactly as they were.
C9_LoadSessionRejectsMalformed ==
    (last.op = "LoadSession" /\ Malformed(PayloadSession(last.text))) =>
        /\ panicked
        /\ root = pre.root /\ meta = pre.meta /\ grammars = pre.grammars

\* A payload with a missing Grid child was handed to LoadSession.
C9_Witness ==
    /\ last.op = "LoadSession"
    /\ ~GridChildrenStored(PayloadSession(last.text).grammars)
    /\ panicked /\ grammars = pre.grammars

\* C10: AddNestedGrid(coord, (rows, cols)) with rows, cols >= 1 stores at
\* coord a Grid listing 1..rows x 1..cols in row-major order, stores a
\* default leaf at each of these children and sets active_cell to
\* child_of(coord, (1, 1)).
C10_AddNestedGridResult ==
    (last.op = "AddNestedGrid" /\ last.size[1] >= 1 /\ last.size[2] >= 1) =>
        LET rows == last.size[1]
            cols == last.size[2]
        IN /\ Stored(grammars, last.a)
           /\ grammars[last.a].kind.tag = "Grid"
           /\ Len(grammars[last.a].kind.sub_coords) = rows * cols
           /\ \A r \in 1 .. rows, c \in 1 .. cols :
                /\ grammars[last.a].kind.sub_coords[(r - 1) * cols + c] = <<r, c>>
                /\ Stored(grammars, child_of(last.a, <<r, c>>))
                /\ grammars[child_of(last.a, <<r, c>>)] = GrammarDefault
           /\ active_cell = child_of(last.a, <<1, 1>>)

-----------------------------------------------------------------------------
\* The entries of grammars other than k are the same before and after the
\* last action.
OthersSame(k) == \A x \in AllCoords : x # k => SameEntry(x)

\* The node at k kept its name and style in the last action.
SameNameStyle(k) ==
    /\ grammars[k].name = pre.grammars[k].name
    /\ grammars[k].style = pre.grammars[k].style

\* One ToggleLookup: Input becomes Lookup with empty query and no resolved
\* type, Lookup becomes Input with empty text, name and style are kept; a
\* Grid, a Defn or an absent coordinate leaves grammars as it was.
C11_ToggleStep ==
    last.op = "ToggleLookup" =>
        /\ ~panicked
        /\ OthersSame(last.a)
        /\ Stored(grammars, last.a) <=> Stored(pre.grammars, last.a)
        /\ Stored(pre.grammars, last.a) =>
              LET old == pre.grammars[last.a]
                  new == grammars[last.a]
              IN CASE old.kind.tag = "Input" ->
                        new.kind = LookupKind("", None) /\ SameNameStyle(last.a)
                   [] old.kind.tag = "Lookup" ->
                        new.kind = Input("") /\ SameNameStyle(last.a)
                   [] OTHER -> new = old

\* A second ToggleLookup on the coordinate of the ToggleLookup just handled,
\* which found an Input there, leaves an Input with empty text.
C11_ToggleTwice ==
    (/\ last.op = "ToggleLookup"
     /\ Stored(pre.grammars, last.a)
     /\ pre.grammars[last.a].kind.tag = "Input"
     /\ last'.op = "ToggleLookup" /\ last'.a = last.a) =>
        /\ Stored(grammars', last.a)
        /\ grammars'[last.a].kind = Input("")
        /\ grammars'[last.a].name = pre.grammars[last.a].name
        /\ grammars'[last.a].style = pre.grammars[last.a].style

\* C11: ToggleLookup(coord) turns an Input node into Lookup with empty query
\* and no resolved type and a Lookup node into Input with empty text, keeping
\* name and style; Grid and Defn nodes and absent coordinates are unchanged;
\* two consecutive ToggleLookup on an Input node yield Input with empty text
\* whatever the original text was.
C11_ToggleLookup == [] C11_ToggleStep /\ [][C11_ToggleTwice]_vars

\* The second of two ToggleLookup on an Input with non-empty text was handled.
C11_Witness ==
    /\ last.op = "ToggleLookup" /\ steps = 2
    /\ Stored(pre.grammars, last.a)
    /\ pre.grammars[last.a].kind = LookupKind("", None)
    /\ Stored(InitGrammars, last.a)
    /\ InitGrammars[last.a].kind.tag = "Input"
    /\ InitGrammars[last.a].kind.text # ""
    /\ grammars[last.a].kind = Input("")

-----------------------------------------------------------------------------
\* C12: ChangeInput(coord, text) replaces the text of an Input node, or the
\* query of a Lookup node while keeping its resolved type, and keeps name
\* and style; on a Grid, a Defn or an absent coordinate grammars is
\* unchanged; no entry of grammars other than coord changes in any case.
C12_ChangeInput ==
    last.op = "ChangeInput" =>
        /\ ~panicked
        /\ OthersSame(last.a)
        /\ Stored(grammars, last.a) <=> Stored(pre.grammars, last.a)
        /\ Stored(pre.grammars, last.a) =>
              LET old == pre.grammars[last.a]
                  new == grammars[last.a]
              IN CASE old.kind.tag = "Input" ->
                        new.kind = Input(last.text) /\ SameNameStyle(last.a)
                   [] old.kind.tag = "Lookup" ->
                        /\ new.kind.tag = "Lookup"
                        /\ new.kind.text = last.text
                        /\ new.kind.lookup_type = old.kind.lookup_type
                        /\ SameNameStyle(last.a)
                   [] OTHER -> grammars = pre.grammars
        /\ ~Stored(pre.grammars, last.a) => grammars = pre.grammars

\* A ChangeInput replaced the query of a Lookup node.
C12_Witness ==
    /\ last.op = "ChangeInput"
    /\ Stored(pre.grammars, last.a)
    /\ pre.grammars[last.a].kind.tag = "Lookup"
    /\ pre.grammars[last.a].kind.text # last.text
    /\ grammars[last.a].kind = LookupKind(last.text, None)

-----------------------------------------------------------------------------
\* The session and the two dimension tables are as before the last action.
SessionSame ==
    /\ title = pre.title /\ root = pre.root /\ meta = pre.meta
    /\ grammars = pre.grammars
DimensionsSame ==
    /\ row_heights = pre.row_heights /\ col_widths = pre.col_widths
SelectionSame ==
    /\ active_cell = pre.active_cell
    /\ first_select_cell = pre.first_select_cell
    /\ last_select_cell = pre.last_select_cell

\* C13: SetActiveCell(coord) sets active_cell and first_select_cell to coord
\* and clears last_select_cell; SetSelectedCells(coord) sets last_select_cell
\* to coord and leaves the other two selection fields; both leave title,
\* root, meta, grammars, row_heights and col_widths unchanged.
C13_SelectionOnly ==
    /\ last.op = "SetActiveCell" =>
          /\ ~panicked
          /\ active_cell = last.a /\ first_select_cell = last.a
          /\ last_select_cell = None
          /\ SessionSame /\ DimensionsSame
    /\ last.op = "SetSelectedCells" =>
          /\ ~panicked
          /\ last_select_cell = last.a
          /\ active_cell = pre.active_cell
          /\ first_select_cell = pre.first_select_cell
          /\ SessionSame /\ DimensionsSame

\* A SetActiveCell on a model with a selected range moved the active cell
\* and cleared the range.
C13_Witness ==
    /\ last.op = "SetActiveCell"
    /\ pre.last_select_cell # None
    /\ pre.active_cell # last.a
    /\ active_cell = last.a /\ last_select_cell = None

-----------------------------------------------------------------------------
\* A dimension entry of the destination of the last action was missing
\* when the action started.
DestDimensionAbsent ==
    \/ ~contains_key(pre.row_heights, full_row(last.b))
    \/ ~contains_key(pre.col_widths, full_col(last.b))

\* The last action relocated the node of last.a to last.b, or found no node
\* at last.a and left grammars as it was.
MoveDone ==
    /\ \A k \in AllCoords : k \notin {last.a, last.b} => SameEntry(k)
    /\ Stored(pre.grammars, last.a) =>
          /\ Stored(grammars, last.b)
          /\ grammars[last.b] = pre.grammars[last.a]
          /\ last.a # last.b => ~Stored(grammars, last.a)
    /\ ~Stored(pre.grammars, last.a) => grammars = pre.grammars

\* C14: DoCompletion(source, dest) signals an error (the handler panics)
\* whenever the row_heights entry for dest.full_row() or the col_widths
\* entry for dest.full_col() is absent; otherwise it completes, having
\* moved the node and resized dest to the row height and column width it
\* already had, so that both tables are as before.
C14_DoCompletionDimensions ==
    last.op = "DoCompletion" =>
        IF DestDimensionAbsent
        THEN panicked
        ELSE /\ ~panicked
             /\ MoveDone
             /\ row_heights[full_row(last.b)] = pre.row_heights[full_row(last.b)]
             /\ col_widths[full_col(last.b)] = pre.col_widths[full_col(last.b)]
             /\ DimensionsSame

\* A DoCompletion onto a cell without dimension entries failed.
C14_Witness ==
    /\ last.op = "DoCompletion"
    /\ DestDimensionAbsent
    /\ Stored(pre.grammars, last.a)
    /\ panicked

-----------------------------------------------------------------------------
\* The coordinates the last action added to grammars.
NewlyInserted == DOMAIN grammars \ DOMAIN pre.grammars

IsGrowth == last.op \in {"InsertRow", "InsertCol", "AddNestedGrid"}

\* C15: after InsertRow, InsertCol or AddNestedGrid, every coordinate the
\* action newly inserted into grammars has a row_heights entry for its
\* full_row and a col_widths entry for its full_col.
C15_DimensionsFollowGrowth ==
    (IsGrowth /\ ~panicked) =>
        \A k \in NewlyInserted :
            /\ contains_key(row_heights, full_row(k))
            /\ contains_key(col_widths, full_col(k))

-----------------------------------------------------------------------------
\* C16: the boolean returned by update tells whether the visible state
\* changed: true when the action changed the session (title, root, meta,
\* grammars) or the selection state, false when it changed no field of the
\* model at all.
C16_ReturnTellsChange ==
    (last.op # "create" /\ ~panicked) =>
        /\ (~SessionSame \/ ~SelectionSame) => ret = TRUE
        /\ Snapshot = pre => ret = FALSE

-----------------------------------------------------------------------------
\* C17: handling ReadSession registers one pending read task and changes
\* nothing else in the model; the root and meta of the session are replaced
\* by no action other than a LoadSession handled on its own, so the store
\* is not modified on behalf of the task before its completion is handled.
C17_TwoPhaseLoad ==
    /\ last.op = "ReadSession" =>
          /\ ~panicked
          /\ tasks = pre.tasks + 1
          /\ SessionSame /\ DimensionsSame /\ SelectionSame
          /\ open_side_menu = pre.open_side_menu
    /\ (root # pre.root \/ meta # pre.meta) => last.op = "LoadSession"

\* A ReadSession was handled after the store had been modified: the task
\* is pending and the store is as the action before left it.
C17_Witness ==
    /\ last.op = "ReadSession"
    /\ tasks = pre.tasks + 1
    /\ grammars # InitGrammars
    /\ grammars = pre.grammars

-----------------------------------------------------------------------------
\* The number of main files (path 'dir/dir.js') in the list of the last
\* ReadDriverFiles.
MainFileCount ==
    Cardinality({i \in DOMAIN last.files : IsMainFile(last.files[i])})

\* C18: ReadDriverFiles, UploadDriverMiscFile and LoadDriverMainFile leave
\* title, root, meta, grammars, the dimension tables and the selection
\* unchanged; ReadDriverFiles on a list with exactly one main file registers
\* one read task per file of the list, and fails on a list with no main
\* file or with more than one.
C18_DriverFilesPassThrough ==
    /\ last.op \in {"ReadDriverFiles", "UploadDriverMiscFile",
                    "LoadDriverMainFile"} =>
          SessionSame /\ DimensionsSame /\ SelectionSame
    /\ last.op = "ReadDriverFiles" =>
          IF MainFileCount = 1
          THEN ~panicked /\ tasks = pre.tasks + Len(last.files)
          ELSE panicked

\* A ReadDriverFiles on a list of one main file and some misc files
\* registered a task for each, on a store that had been modified before.
C18_Witness ==
    /\ last.op = "ReadDriverFiles" /\ ~panicked
    /\ MainFileCount = 1 /\ Len(last.files) > 1
    /\ tasks = pre.tasks + Len(last.files)
    /\ grammars # InitGrammars /\ grammars = pre.grammars

-----------------------------------------------------------------------------
\* The dimension keys of the children of the grid made by the last
\* AddNestedGrid(last.a, last.size).
ChildRowKeys == {[p |-> last.a, i |-> r] : r \in 1 .. last.size[1]}
ChildColKeys == {[p |-> last.a, i |-> c] : c \in 1 .. last.size[2]}

\* v is the current dimension split evenly over n children when it exceeds
\* the baseline, and the baseline otherwise.
EvenSplit(v, current, n, baseline) ==
    IF current > baseline THEN v * n = current ELSE v = baseline

\* C19: each child dimension entry created by AddNestedGrid(coord, (rows,
\* cols)) holds current_width / cols when coord's column width exceeds 90
\* (current_height / rows when its row height exceeds 30) and the baseline
\* otherwise; an entry is created only under a key that was absent, and an
\* entry already held under a child's key is not overwritten.
C19_ChildDimensions ==
    (last.op = "AddNestedGrid" /\ ~panicked) =>
        /\ \A k \in ChildColKeys :
              /\ contains_key(col_widths, k)
              /\ IF contains_key(pre.col_widths, k)
                 THEN col_widths[k] = pre.col_widths[k]
                 ELSE EvenSplit(col_widths[k], pre.col_widths[full_col(last.a)],
                                last.size[2], DefaultColWidth)
        /\ \A k \in ChildRowKeys :
              /\ contains_key(row_heights, k)
              /\ IF contains_key(pre.row_heights, k)
                 THEN row_heights[k] = pre.row_heights[k]
                 ELSE EvenSplit(row_heights[k], pre.row_heights[full_row(last.a)],
                                last.size[1], DefaultRowHeight)

-----------------------------------------------------------------------------
\* C20: after AddNestedGrid(coord, (rows, cols)) completes, row_heights at
\* coord.full_row() is rows * 30 and col_widths at coord.full_col() is
\* cols * 90 whatever the values were before, and no dimension entry other
\* than these two and the newly created child entries changes.
C20_FinalResize ==
    (last.op = "AddNestedGrid" /\ ~panicked) =>
        /\ contains_key(row_heights, full_row(last.a))
        /\ row_heights[full_row(last.a)] = last.size[1] * DefaultRowHeight
        /\ contains_key(col_widths, full_col(last.a))
        /\ col_widths[full_col(last.a)] = last.size[2] * DefaultColWidth
        /\ \A k \in DOMAIN pre.row_heights :
              /\ contains_key(row_heights, k)
              /\ k # full_row(last.a) => row_heights[k] = pre.row_heights[k]
        /\ \A k \in DOMAIN pre.col_widths :
              /\ contains_key(col_widths, k)
              /\ k # full_col(last.a) => col_widths[k] = pre.col_widths[k]
        /\ DOMAIN row_heights \ DOMAIN pre.row_heights \subseteq ChildRowKeys
        /\ DOMAIN col_widths \ DOMAIN pre.col_widths \subseteq ChildColKeys

\* An AddNestedGrid on a cell whose two dimensions were not rows * 30 and
\* cols * 90 resized it, next to other entries that kept their values.
C20_Witness ==
    /\ last.op = "AddNestedGrid" /\ ~panicked
    /\ pre.row_heights[full_row(last.a)] # last.size[1] * DefaultRowHeight
    /\ pre.col_widths[full_col(last.a)] # last.size[2] * DefaultColWidth
    /\ row_heights[full_row(last.a)] = last.size[1] * DefaultRowHeight
    /\ col_widths[full_col(last.a)] = last.size[2] * DefaultColWidth

-----------------------------------------------------------------------------
\* k is one of the cells of the grid made by the last AddNestedGrid.
IsGridChild(k) == Len(k) = Len(last.a) + 1 /\ parent(k) = last.a

\* The kind of every node stored before the last AddNestedGrid is as it
\* was, except at the coordinates of `except`, at coord and at its cells.
OtherKindsSame(except) ==
    \A k \in DOMAIN pre.grammars :
        (k # last.a /\ k \notin except /\ ~IsGridChild(k)) =>
            /\ Stored(grammars, k)
            /\ grammars[k].kind = pre.grammars[k].kind

\* C21: when coord has a parent stored in grammars, after a completed
\* AddNestedGrid(coord, (rows, cols)) the parent's kind is the Grid kind of
\* the node now stored at coord (child list 1..rows x 1..cols), whatever
\* kind the parent had, and the parent keeps its name and style; when coord
\* has no parent or the parent is not stored, no other node's kind changes.
C21_ParentMirroring ==
    (last.op = "AddNestedGrid" /\ ~panicked) =>
        LET p == parent(last.a)
        IN IF p # None /\ Stored(pre.grammars, p)
           THEN /\ Stored(grammars, p) /\ Stored(grammars, last.a)
                /\ grammars[p].kind = grammars[last.a].kind
                /\ grammars[p].kind.tag = "Grid"
                /\ Len(grammars[p].kind.sub_coords) = last.size[1] * last.size[2]
                /\ \A r \in 1 .. last.size[1], c \in 1 .. last.size[2] :
                      grammars[p].kind.sub_coords[(r - 1) * last.size[2] + c]
                        = <<r, c>>
                /\ grammars[p].name = pre.grammars[p].name
                /\ grammars[p].style = pre.grammars[p].style
                /\ OtherKindsSame({p})
           ELSE /\ p # None => ~Stored(grammars, p)
                /\ OtherKindsSame({})

\* An AddNestedGrid replaced a different child list of the stored parent.
C21_Witness ==
    /\ last.op = "AddNestedGrid" /\ ~panicked
    /\ Stored(pre.grammars, parent(last.a))
    /\ pre.grammars[parent(last.a)].kind # grammars[last.a].kind
    /\ grammars[parent(last.a)].kind = grammars[last.a].kind

\* An AddNestedGrid completed on a cell whose parent is not stored.
C21_WitnessAbsentParent ==
    /\ last.op = "AddNestedGrid" /\ ~panicked
    /\ ~Stored(pre.grammars, parent(last.a))
    /\ Stored(grammars, last.a)

-----------------------------------------------------------------------------
\* The stored coordinates of g that lie strictly under c.
Descendants(g, c) ==
    {k \in DOMAIN g : Len(k) > Len(c) /\ SubSeq(k, 1, Len(c)) = c}

\* C22: a Lookup-move or DoCompletion from source to dest changes the
\* entries of grammars at source and dest and no other entry; the nodes
\* stored under a moved Grid stay at their coordinates with their content
\* and nothing is created under dest.
C22_MoveSingleNode ==
    IsMove =>
        /\ \A k \in AllCoords : (k # last.a /\ k # last.b) => SameEntry(k)
        /\ \A k \in Descendants(pre.grammars, last.a) :
              k # last.b =>
                  Stored(grammars, k) /\ grammars[k] = pre.grammars[k]
        /\ Descendants(grammars, last.b) \ {last.a}
              \subseteq Descendants(pre.grammars, last.b)

\* A move relocated a Grid whose cells are stored: the cells are where they
\* were and the destination has none.
C22_Witness ==
    /\ IsMove /\ last.a # last.b
    /\ Stored(pre.grammars, last.a)
    /\ pre.grammars[last.a].kind.tag = "Grid"
    /\ Descendants(pre.grammars, last.a) # {}
    /\ Descendants(grammars, last.a) = Descendants(pre.grammars, last.a)
    /\ grammars[last.b] = pre.grammars[last.a]
    /\ Descendants(grammars, last.b) = {}

-----------------------------------------------------------------------------
\* The pairs at which the last InsertRow / InsertCol stored a default leaf.
InsertedPairs ==
    IF last.op = "InsertRow" THEN NewRowPairs ELSE NewColPairs

\* The pairs listed by the Grid g.
Listed(g) == {g.kind.sub_coords[i] : i \in DOMAIN g.kind.sub_coords}

\* C23: each coordinate at which InsertRow or InsertCol stores a default
\* leaf was absent from grammars before the action, and no pair the parent
\* listed already is appended to its child list again.
C23_InsertNeverOverwrites ==
    (last.op \in {"InsertRow", "InsertCol"} /\ ~panicked
     /\ IsGridAt(pre.grammars, PreParent)) =>
        \A rc \in InsertedPairs :
            /\ ~Stored(pre.grammars, child_of(PreParent, rc))
            /\ rc \notin Listed(pre.grammars[PreParent])

-----------------------------------------------------------------------------
\* C24: in every state reached by the reducer, every stored coordinate of
\* length > 1 whose parent is stored as a Grid has its last (row, col)
\* pair in that parent's child list: the child list reaches every cell
\* that query_parent returns for the grid.
C24_ChildListsComplete ==
    ~panicked =>
        \A c \in DOMAIN grammars :
            grammars[c].kind.tag = "Grid" =>
                \A k \in query_parent(grammars, c) :
                    k[Len(k)] \in Listed(grammars[c])

-----------------------------------------------------------------------------
\* C25: whenever DoCompletion(source, dest) completes, row_heights and
\* col_widths are identical before and after; whenever it fails on an
\* absent dimension entry, grammars is left as it was before the action.
C25_DoCompletionFrame ==
    last.op = "DoCompletion" =>
        /\ ~panicked => DimensionsSame
        /\ panicked => DestDimensionAbsent /\ grammars = pre.grammars
====
